---- MODULE Spec2Model ----
(***************************************************************************)
(* A model of the AI-PS backend: the label store (label_manager.py), the   *)
(* process classifier (process_classifier.py), the classify-and-tag        *)
(* pipeline (api_server.py.py) and the two anomaly detectors (analyzer.py, *)
(* detector.py).                                                           *)
(*                                                                         *)
(* A Python dict is a sequence of entries in insertion order; a str is a   *)
(* sequence of one-character strings where its characters are inspected    *)
(* (process names, keywords, JSON keys) and a TLA+ string where it is only *)
(* stored and compared (tags, notes, categories).                          *)
(***************************************************************************)
EXTENDS Integers, Sequences, FiniteSets, TLC

VARIABLES
    \* LabelManager: labels_db, tag_definitions, the storage file, the wall
    \* clock, the last call with its return value, and the calling threads.
    labels_db, tag_definitions, blob, clock, last_op, thr,
    \* ProcessClassifier: its rule state and the last classification made.
    process_categories, custom_rules, performance_tags, cls,
    \* ProcessClassifier: performance_thresholds, tag_definitions and
    \* system_settings (settings), and the last load_config call (load).
    settings, load,
    \* The anomaly detectors: the last detect call and what it returned.
    det

store_vars == <<labels_db, tag_definitions, blob, clock, last_op>>
conf_vars == <<settings, load>>
cls_vars == <<process_categories, custom_rules, performance_tags, cls, settings, load>>
det_vars == <<det>>
vars == <<labels_db, tag_definitions, blob, clock, last_op, thr,
          process_categories, custom_rules, performance_tags, cls, settings, load,
          det>>

(***************************************************************************)
(* Bounds and input sets                                                   *)
(***************************************************************************)
\* datetime.now() is read from a clock that only moves forward, up to here.
MaxClock == 1
\* Number of distinct process ids offered to the label store.
NumPids == 2

\* Calls each thread makes on the shared LabelManager.
MaxCalls == 1

\* Custom rules added to the classifier.
MaxRules == 2

\* The pids straddle the one-digit / two-digit boundary of str(pid).
Pids == 9..(9 + NumPids - 1)
Tags == {"high_priority", "adhoc"}
\* The note argument: None (not given), "" or a text.
NoNote == [given |-> FALSE, text |-> ""]
NoteArgs == {NoNote, [given |-> TRUE, text |-> ""], [given |-> TRUE, text |-> "n1"]}

(***************************************************************************)
(* Generic helpers                                                         *)
(***************************************************************************)
Range(s) == {s[i] : i \in 1..Len(s)}

RECURSIVE SetToList(_)
\* list(a_set): some enumeration of the set without repetition.
SetToList(S) ==
    IF S = {} THEN <<>>
    ELSE LET x == CHOOSE y \in S : TRUE IN <<x>> \o SetToList(S \ {x})

RECURSIVE Digits(_)
\* str(n) for n >= 0: the decimal digits, most significant first.
Digits(n) == IF n < 10 THEN <<n>> ELSE Append(Digits(n \div 10), n % 10)

RECURSIVE ParseInt(_)
\* int(s) for a string of decimal digits.
ParseInt(s) ==
    IF Len(s) = 0 THEN 0
    ELSE 10 * ParseInt(SubSeq(s, 1, Len(s) - 1)) + s[Len(s)]

(***************************************************************************)
(* dict operations on labels_db                                            *)
(***************************************************************************)
Keys(db) == {db[i].pid : i \in 1..Len(db)}
Has(db, pid) == pid \in Keys(db)
IndexOf(db, pid) == CHOOSE i \in 1..Len(db) : db[i].pid = pid
Lookup(db, pid) == db[IndexOf(db, pid)]
\* d[k] = v: an existing key keeps its position, a new key goes last.
DictSet(db, rec) ==
    IF Has(db, rec.pid)
    THEN [i \in 1..Len(db) |-> IF db[i].pid = rec.pid THEN rec ELSE db[i]]
    ELSE Append(db, rec)
\* del d[k]
DictDel(db, pid) ==
    LET i == IndexOf(db, pid)
    IN SubSeq(db, 1, i - 1) \o SubSeq(db, i + 1, Len(db))

(***************************************************************************)
(* LabelManager                                                            *)
(***************************************************************************)
DefaultTagDefinitions ==
    << [tag |-> "high_priority",     color |-> "red"],
       [tag |-> "monitor_closely",   color |-> "orange"],
       [tag |-> "auto_restart",      color |-> "blue"],
       [tag |-> "ignore_alert",      color |-> "gray"],
       [tag |-> "business_critical", color |-> "purple"],
       [tag |-> "experimental",      color |-> "yellow"] >>

TagNames(defs) == {defs[i].tag : i \in 1..Len(defs)}

\* Mutant: the tag is added only when the record is created by this call.
AddLabelMem_OnlyNew(db, pid, label, note, now) ==
    IF Has(db, pid)
    THEN DictSet(db, [Lookup(db, pid) EXCEPT !.last_updated = now])
    ELSE DictSet(db, [pid |-> pid, tags |-> {label},
                      notes |-> IF note.given /\ note.text # "" THEN note.text
                                ELSE "",
                      last_updated |-> now])

\* add_label, lines 36-50: the in-memory part, before save_labels().
AddLabelMem(db, pid, label, note, now) ==
    LET db1 == IF ~Has(db, pid)
               THEN DictSet(db, [pid |-> pid, tags |-> {}, notes |-> "",
                                 last_updated |-> now])
               ELSE db
        r   == Lookup(db1, pid)
    IN DictSet(db1, [pid |-> pid,
                     tags |-> r.tags \cup {label},
                     notes |-> IF note.given /\ note.text # "" THEN note.text
                               ELSE r.notes,
                     last_updated |-> now])

RemoveGuard(db, pid, label) == Has(db, pid) /\ label \in Lookup(db, pid).tags

\* Mutant: the record is kept when its last tag is removed.
RemoveLabelMem_KeepEmpty(db, pid, label, now) ==
    LET r == Lookup(db, pid)
    IN DictSet(db, [r EXCEPT !.tags = r.tags \ {label}, !.last_updated = now])

\* remove_label, lines 59-64: the in-memory part, taken when RemoveGuard holds.
RemoveLabelMem(db, pid, label, now) ==
    LET r  == Lookup(db, pid)
        r1 == [r EXCEPT !.tags = r.tags \ {label}, !.last_updated = now]
    IN IF r1.tags = {} THEN DictDel(db, pid) ELSE DictSet(db, r1)

\* get_process_labels
GetProcessLabels(db, pid) == IF Has(db, pid) THEN Lookup(db, pid).tags ELSE {}

\* get_process_info: {} when absent
GetProcessInfo(db, pid) ==
    IF Has(db, pid) THEN <<Lookup(db, pid)>> ELSE <<>>

\* search_by_tag: the pids carrying the tag, in store order.
SearchByTag(db, tag) ==
    LET F[i \in 0..Len(db)] ==
            IF i = 0 THEN <<>>
            ELSE IF tag \in db[i].tags THEN Append(F[i - 1], db[i].pid)
                 ELSE F[i - 1]
    IN F[Len(db)]

\* get_tag_statistics: tag -> number of records carrying it (tags with a count).
GetTagStatistics(db) ==
    LET used == UNION {db[i].tags : i \in 1..Len(db)}
    IN [t \in used |-> Cardinality({i \in 1..Len(db) : t \in db[i].tags})]

\* save_labels, lines 128-134: the JSON object built from labels_db.
SaveData(db) ==
    [i \in 1..Len(db) |->
        [key |-> Digits(db[i].pid),
         tags |-> SetToList(db[i].tags),
         notes |-> db[i].notes,
         last_updated |-> db[i].last_updated]]

\* save_labels, lines 136-141: the document that overwrites the file.
SaveDoc(save_data, defs, now) ==
    [kind |-> "doc", labels |-> save_data, tag_definitions |-> defs,
     last_saved |-> now]

SaveLabels(db, defs, now) == SaveDoc(SaveData(db), defs, now)

NoFile == [kind |-> "missing", labels |-> <<>>, tag_definitions |-> <<>>,
           last_saved |-> 0]

\* Mutant: the notes are not restored.
LoadDb_DropNotes(doc) ==
    [i \in 1..Len(doc.labels) |->
        [pid |-> ParseInt(doc.labels[i].key),
         tags |-> Range(doc.labels[i].tags),
         notes |-> "",
         last_updated |-> doc.labels[i].last_updated]]

\* load_labels, lines 151-157: labels_db rebuilt from the document.
LoadDb(doc) ==
    LET F[i \in 0..Len(doc.labels)] ==
            IF i = 0 THEN <<>>
            ELSE LET e == doc.labels[i]
                 IN DictSet(F[i - 1],
                            [pid |-> ParseInt(e.key),
                             tags |-> Range(e.tags),
                             notes |-> e.notes,
                             last_updated |-> e.last_updated])
    IN F[Len(doc.labels)]

\* dict.update on the tag catalog (line 160).
UpdateDefs(defs, saved) ==
    LET F[i \in 0..Len(saved)] ==
            IF i = 0 THEN defs
            ELSE LET e == saved[i]
                     d == F[i - 1]
                 IN IF e.tag \in TagNames(d)
                    THEN [j \in 1..Len(d) |-> IF d[j].tag = e.tag THEN e ELSE d[j]]
                    ELSE Append(d, e)
    IN F[Len(saved)]

\* load_labels: the store after construction on a given file.
\* doc.kind is "missing" (no file), "doc" (a document as save_labels writes
\* it), "invalid" (json.load raises), "bad_record" (after the records of
\* doc.labels comes one that lacks a key, so the loop of lines 151-157
\* raises) or "bad_catalog" (tag_definitions is an array whose leading pairs
\* are doc.tag_definitions and whose next element is no pair, so the update
\* of line 160 raises after taking the pairs).  The except branch (161-163)
\* sets labels_db = {} and nothing else.
LoadLabels(doc) ==
    IF doc.kind = "missing"
    THEN [loaded |-> "missing", labels_db |-> <<>>,
          tag_definitions |-> DefaultTagDefinitions]
    ELSE IF doc.kind \in {"invalid", "bad_record"}
    THEN [loaded |-> "failed", labels_db |-> <<>>,
          tag_definitions |-> DefaultTagDefinitions]
    ELSE IF doc.kind = "bad_catalog"
    THEN [loaded |-> "failed", labels_db |-> <<>>,
          tag_definitions |-> UpdateDefs(DefaultTagDefinitions, doc.tag_definitions)]
    ELSE [loaded |-> "ok", labels_db |-> LoadDb(doc),
          tag_definitions |-> UpdateDefs(DefaultTagDefinitions, doc.tag_definitions)]

(***************************************************************************)
(* ProcessClassifier                                                       *)
(***************************************************************************)
UpperChars == <<"A", "B", "C", "D", "E", "F", "G", "H", "I", "J", "K", "L", "M",
                "N", "O", "P", "Q", "R", "S", "T", "U", "V", "W", "X", "Y", "Z">>
LowerChars == <<"a", "b", "c", "d", "e", "f", "g", "h", "i", "j", "k", "l", "m",
                "n", "o", "p", "q", "r", "s", "t", "u", "v", "w", "x", "y", "z">>

\* str.lower(), character by character.
LowerOf ==
    [c \in {UpperChars[i] : i \in 1..Len(UpperChars)} |->
        LowerChars[CHOOSE i \in 1..Len(UpperChars) : UpperChars[i] = c]]
LowerChar(c) == IF c \in DOMAIN LowerOf THEN LowerOf[c] ELSE c
LowerStr(str) == [i \in 1..Len(str) |-> LowerChar(str[i])]

\* sub in str
Contains(sub, str) ==
    \E i \in 0..(Len(str) - Len(sub)) : SubSeq(str, i + 1, i + Len(sub)) = sub

\* keyword.lower() in process_name.lower()
KeywordIn(keyword, process_name) ==
    LET k == LowerStr(keyword)
        n == LowerStr(process_name)
    IN Contains(k, n)

DefaultProcessCategories ==
    << [category |-> "system_critical", keywords |-> <<
          <<"s", "y", "s", "t", "e", "m", "d">>,
          <<"i", "n", "i", "t">>,
          <<"k", "t", "h", "r", "e", "a", "d", "d">>,
          <<"u", "d", "e", "v", "d">>,
          <<"d", "b", "u", "s">> >>],
       [category |-> "network_services", keywords |-> <<
          <<"s", "s", "h", "d">>,
          <<"n", "g", "i", "n", "x">>,
          <<"a", "p", "a", "c", "h", "e">>,
          <<"p", "o", "s", "t", "g", "r", "e", "s">>,
          <<"m", "y", "s", "q", "l">>,
          <<"r", "e", "d", "i", "s">> >>],
       [category |-> "user_applications", keywords |-> <<
          <<"c", "h", "r", "o", "m", "e">>,
          <<"f", "i", "r", "e", "f", "o", "x">>,
          <<"c", "o", "d", "e">>,
          <<"p", "y", "c", "h", "a", "r", "m">>,
          <<"s", "u", "b", "l", "i", "m", "e">>,
          <<"t", "h", "u", "n", "d", "e", "r", "b", "i", "r", "d">> >>],
       [category |-> "background_workers", keywords |-> <<
          <<"c", "r", "o", "n">>,
          <<"a", "t", "d">>,
          <<"w", "o", "r", "k", "e", "r">>,
          <<"c", "e", "l", "e", "r", "y">>,
          <<"s", "u", "p", "e", "r", "v", "i", "s", "o", "r", "d">> >>],
       [category |-> "development_tools", keywords |-> <<
          <<"p", "y", "t", "h", "o", "n">>,
          <<"j", "a", "v", "a">>,
          <<"n", "o", "d", "e">>,
          <<"g", "o", "l", "a", "n", "g">>,
          <<"d", "o", "c", "k", "e", "r">> >>],
       [category |-> "security_services", keywords |-> <<
          <<"f", "a", "i", "l", "2", "b", "a", "n">>,
          <<"f", "i", "r", "e", "w", "a", "l", "l", "d">>,
          <<"a", "u", "d", "i", "t", "d">>,
          <<"c", "l", "a", "m", "a", "v">> >>] >>

\* The thresholds the performance_tags closures hold (lines 26-32).
DefaultPerformanceTags ==
    [cpu_intensive |-> 70, memory_intensive |-> 30,
     low_resource_cpu |-> 5, low_resource_memory |-> 5,
     stable_cpu_min |-> 5, stable_cpu_max |-> 30,
     stable_memory_min |-> 5, stable_memory_max |-> 20]

\* category_scores: a dict category -> score, in insertion order.
ScoreKeys(scores) == {scores[i].category : i \in 1..Len(scores)}
ScoreGet(scores, category) ==
    IF category \in ScoreKeys(scores)
    THEN scores[CHOOSE i \in 1..Len(scores) : scores[i].category = category].score
    ELSE 0
\* category_scores[c] = category_scores.get(c, 0) + w
ScoreAdd(scores, category, w) ==
    IF category \in ScoreKeys(scores)
    THEN [i \in 1..Len(scores) |->
            IF scores[i].category = category
            THEN [category |-> category, score |-> scores[i].score + w]
            ELSE scores[i]]
    ELSE Append(scores, [category |-> category, score |-> w])

\* classify_process step 1 (lines 104-107): one point per matching keyword.
NameScores(categories, process_name) ==
    LET Hits(keywords) ==
            Cardinality({k \in 1..Len(keywords) : KeywordIn(keywords[k], process_name)})
        F[i \in 0..Len(categories)] ==
            IF i = 0 THEN <<>>
            ELSE LET hits == Hits(categories[i].keywords)
                 IN IF hits > 0
                    THEN ScoreAdd(F[i - 1], categories[i].category, hits)
                    ELSE F[i - 1]
    IN F[Len(categories)]

\* classify_process step 2 (lines 110-120): the first matching branch only.
ResourcePattern(scores, cpu_usage, memory_usage) ==
    IF cpu_usage < 1 /\ memory_usage < 1
    THEN [scores |-> ScoreAdd(scores, "idle_process", 2), tags |-> <<"low_resource">>]
    ELSE IF cpu_usage > 50
    THEN [scores |-> ScoreAdd(scores, "cpu_intensive", 2), tags |-> <<"cpu_intensive">>]
    ELSE IF memory_usage > 30
    THEN [scores |-> scores, tags |-> <<"memory_intensive">>]
    ELSE IF 5 <= cpu_usage /\ cpu_usage <= 30 /\ 5 <= memory_usage /\ memory_usage <= 20
    THEN [scores |-> scores, tags |-> <<"stable_process">>]
    ELSE [scores |-> scores, tags |-> <<>>]

NoThreshold == [set |-> FALSE, v |-> 0]

\* add_custom_rule (lines 154-160): the rule it appends.
NewRule(category, keywords, cpu_threshold, memory_threshold, weight) ==
    [has_category |-> TRUE, category |-> category,
     has_keywords |-> TRUE, keywords |-> keywords,
     cpu_threshold |-> cpu_threshold, memory_threshold |-> memory_threshold,
     has_weight |-> TRUE, weight |-> weight]

\* _match_rule (lines 165-181)
MatchRule(rule, process_name, cpu, memory) ==
    LET keywords == IF rule.has_keywords THEN rule.keywords ELSE <<>>
        keyword_match == \E k \in 1..Len(keywords) : KeywordIn(keywords[k], process_name)
        cpu_match == IF rule.cpu_threshold.set THEN cpu > rule.cpu_threshold.v ELSE TRUE
        memory_match == IF rule.memory_threshold.set
                        THEN memory > rule.memory_threshold.v ELSE TRUE
    IN keyword_match /\ cpu_match /\ memory_match

\* classify_process step 3 (lines 122-124); rule['category'] of a rule without
\* that key raises KeyError.
CustomScores(scores, rules, process_name, cpu, memory) ==
    LET F[i \in 0..Len(rules)] ==
            IF i = 0 THEN [raised |-> "", scores |-> scores]
            ELSE LET prev == F[i - 1]
                     rule == rules[i]
                 IN IF prev.raised # "" THEN prev
                    ELSE IF ~MatchRule(rule, process_name, cpu, memory) THEN prev
                    ELSE IF ~rule.has_category
                    THEN [raised |-> "KeyError", scores |-> prev.scores]
                    ELSE [raised |-> "",
                          scores |-> ScoreAdd(prev.scores, rule.category,
                                        IF rule.has_weight THEN rule.weight ELSE 1)]
    IN F[Len(rules)]

\* Mutant: of several keys with the largest score the last one is taken.
MaxKey_LastOfTies(scores) ==
    LET i == CHOOSE j \in 1..Len(scores) :
                /\ \A k \in 1..Len(scores) : scores[k].score <= scores[j].score
                /\ \A k \in (j + 1)..Len(scores) : scores[k].score < scores[j].score
    IN scores[i].category

\* max(category_scores, key=category_scores.get): the first key, in insertion
\* order, whose score is the largest.
MaxKey(scores) ==
    LET i == CHOOSE j \in 1..Len(scores) :
                /\ \A k \in 1..Len(scores) : scores[k].score <= scores[j].score
                /\ \A k \in 1..(j - 1) : scores[k].score < scores[j].score
    IN scores[i].category

SumScores(scores) ==
    LET F[i \in 0..Len(scores)] == IF i = 0 THEN 0 ELSE F[i - 1] + scores[i].score
    IN F[Len(scores)]

\* round(p / q, 2) in hundredths, for q # 0: the nearest hundredth, a tie going
\* to the even one.  (A tie needs a quotient k/8, k/40 or k/200; k/8 is exact
\* in binary floating point and Python rounds it half-even; sums of scores
\* stay below 40 here.)
Round2(p, q) ==
    LET num == IF q < 0 THEN -(100 * p) ELSE 100 * p
        den == IF q < 0 THEN -q ELSE q
        f   == num \div den
        rem == num - f * den
    IN IF 2 * rem < den THEN f
       ELSE IF 2 * rem > den THEN f + 1
       ELSE IF f % 2 = 0 THEN f ELSE f + 1

\* Mutant: low_resource uses the idle bounds of step 2 (cpu < 1 and mem < 1).
PerformanceTags_IdleBounds(pt, cpu, mem) ==
    (IF cpu > pt.cpu_intensive THEN <<"cpu_intensive">> ELSE <<>>)
    \o (IF mem > pt.memory_intensive THEN <<"memory_intensive">> ELSE <<>>)
    \o (IF cpu < 1 /\ mem < 1 THEN <<"low_resource">> ELSE <<>>)
    \o (IF pt.stable_cpu_min <= cpu /\ cpu <= pt.stable_cpu_max
           /\ pt.stable_memory_min <= mem /\ mem <= pt.stable_memory_max
        THEN <<"stable_process">> ELSE <<>>)

\* classify_process step 5 (lines 135-138): the performance tags whose
\* predicate holds, in table order.
PerformanceTags(pt, cpu, mem) ==
    (IF cpu > pt.cpu_intensive THEN <<"cpu_intensive">> ELSE <<>>)
    \o (IF mem > pt.memory_intensive THEN <<"memory_intensive">> ELSE <<>>)
    \o (IF cpu < pt.low_resource_cpu /\ mem < pt.low_resource_memory
        THEN <<"low_resource">> ELSE <<>>)
    \o (IF pt.stable_cpu_min <= cpu /\ cpu <= pt.stable_cpu_max
           /\ pt.stable_memory_min <= mem /\ mem <= pt.stable_memory_max
        THEN <<"stable_process">> ELSE <<>>)

\* if tag_name not in suggested_tags: suggested_tags.append(tag_name)
AppendNew(tags, more) ==
    LET F[i \in 0..Len(more)] ==
            IF i = 0 THEN tags
            ELSE IF more[i] \in Range(F[i - 1]) THEN F[i - 1]
                 ELSE Append(F[i - 1], more[i])
    IN F[Len(more)]

ClassifyFailed(exc) ==
    [raised |-> exc, category |-> "", tags |-> <<>>, confidence |-> 0]

\* classify_process (lines 96-147); confidence in hundredths.
ClassifyProcess(categories, rules, pt, process_name, cpu_usage, memory_usage) ==
    LET s1 == NameScores(categories, process_name)
        s2 == ResourcePattern(s1, cpu_usage, memory_usage)
        s3 == CustomScores(s2.scores, rules, process_name, cpu_usage, memory_usage)
        category_scores == s3.scores
    IN IF s3.raised # "" THEN ClassifyFailed(s3.raised)
       ELSE IF category_scores # <<>> /\ SumScores(category_scores) = 0
       THEN ClassifyFailed("ZeroDivisionError")
       ELSE [raised |-> "",
             category |-> IF category_scores # <<>> THEN MaxKey(category_scores)
                          ELSE "unknown",
             tags |-> AppendNew(s2.tags, PerformanceTags(pt, cpu_usage, memory_usage)),
             confidence |->
                IF category_scores # <<>>
                THEN Round2(ScoreGet(category_scores, MaxKey(category_scores)),
                            SumScores(category_scores))
                ELSE 0]

(***************************************************************************)
(* api_server: the classify-and-tag pipeline                               *)
(***************************************************************************)
\* calculate_priority (lines 169-186)
Max2(a, b) == IF a >= b THEN a ELSE b
Min2(a, b) == IF a <= b THEN a ELSE b

\* Mutant: a cpu above 80 sets the priority to 8 instead of raising it to 8.
CalculatePriority_CpuOverrides(user_labels, category, cpu) ==
    LET p1 == IF "high_priority" \in Range(user_labels) THEN 9
              ELSE IF "business_critical" \in Range(user_labels) THEN 8
              ELSE 5
        p2 == IF category = "system_critical" THEN Max2(p1, 9) ELSE p1
        p3 == IF cpu > 80 THEN 8 ELSE p2
    IN Min2(p3, 10)

CalculatePriority(user_labels, category, cpu) ==
    LET p1 == IF "high_priority" \in Range(user_labels) THEN 9
              ELSE IF "business_critical" \in Range(user_labels) THEN 8
              ELSE 5
        p2 == IF category = "system_critical" THEN Max2(p1, 9) ELSE p1
        p3 == IF cpu > 80 THEN Max2(p2, 8) ELSE p2
    IN Min2(p3, 10)

ColorMapKeys == {"system_critical", "network_services", "user_applications",
                 "development_tools", "security_services", "cpu_intensive",
                 "memory_intensive"}
ColorMap(category) ==
    CASE category = "system_critical" -> "red"
      [] category = "network_services" -> "blue"
      [] category = "user_applications" -> "green"
      [] category = "development_tools" -> "cyan"
      [] category = "security_services" -> "orange"
      [] category = "cpu_intensive" -> "orange"
      [] category = "memory_intensive" -> "purple"

\* get_category_icon (lines 152-166): the glyph, named by its code point.
GetCategoryIcon(category) ==
    CASE category = "system_critical" -> "U+1F534"
      [] category = "network_services" -> "U+1F310"
      [] category = "user_applications" -> "U+1F4BB"
      [] category = "background_workers" -> "U+2699"
      [] category = "development_tools" -> "U+1F527"
      [] category = "security_services" -> "U+1F512"
      [] category = "cpu_intensive" -> "U+1F525"
      [] category = "memory_intensive" -> "U+1F4BE"
      [] category = "idle_process" -> "U+1F4A4"
      [] OTHER -> "U+2753"

\* get_visual_hint (lines 114-149)
GetVisualHint(user_labels, category, cpu, memory) ==
    LET c1 == IF "high_priority" \in Range(user_labels) THEN "darkred"
              ELSE IF "monitor_closely" \in Range(user_labels) THEN "orange"
              ELSE IF category \in ColorMapKeys THEN ColorMap(category)
              ELSE "gray"
        c2 == IF cpu > 70 /\ c1 = "gray" THEN "orange" ELSE c1
        c3 == IF memory > 50 /\ c2 = "gray" THEN "purple" ELSE c2
    IN [color |-> c3, icon |-> GetCategoryIcon(category),
        priority |-> CalculatePriority(user_labels, category, cpu)]

\* calculate_statistics (lines 189-211) of a one-process batch.
CalculateStatistics(category, is_tagged, cpu, memory) ==
    [by_category |-> <<[category |-> category, count |-> 1]>>,
     tagged_processes |-> IF is_tagged THEN 1 ELSE 0,
     cpu_intensive |-> IF cpu > 70 THEN 1 ELSE 0,
     memory_intensive |-> IF memory > 30 THEN 1 ELSE 0]

NoView == [success |-> FALSE, raised |-> "", category |-> "", tags |-> <<>>, confidence |-> 0,
           user_labels |-> <<>>, is_tagged |-> FALSE, color |-> "", icon |-> "",
           priority |-> 0,
           statistics |-> [by_category |-> <<>>, tagged_processes |-> 0,
                           cpu_intensive |-> 0, memory_intensive |-> 0]]

\* classify_and_tag_processes (lines 47-111) for the one process the sampler
\* returned: batch_classify, the label merge, the visual hint, the statistics;
\* any exception is answered with success = False (raised keeps the exception
\* classify_process raised).
ClassifyAndTag(categories, rules, pt, db, pid, name, cpu, memory) ==
    LET r == ClassifyProcess(categories, rules, pt, name, cpu, memory)
        labels == IF pid # 0 THEN SetToList(GetProcessLabels(db, pid)) ELSE <<>>
        hint == GetVisualHint(labels, r.category, cpu, memory)
    IN IF r.raised # "" THEN [NoView EXCEPT !.raised = r.raised]
       ELSE [success |-> TRUE, raised |-> "",
             category |-> r.category, tags |-> r.tags,
             confidence |-> r.confidence,
             user_labels |-> labels, is_tagged |-> Len(labels) > 0,
             color |-> hint.color, icon |-> hint.icon, priority |-> hint.priority,
             statistics |-> CalculateStatistics(r.category, Len(labels) > 0,
                                                cpu, memory)]

NoCall == [op |-> "none", pid |-> 0, name |-> <<>>, cpu |-> 0, memory |-> 0,
           view |-> NoView]

(***************************************************************************)
(* ProcessClassifier.load_config                                           *)
(***************************************************************************)
\* A JSON object member that may be absent: config.get(key, default).
Absent == [has |-> FALSE, is_dict |-> TRUE, v |-> <<>>]
Member(is_dict, v) == [has |-> TRUE, is_dict |-> is_dict, v |-> v]

\* performance_thresholds = {}, tag_definitions = {}, system_settings = {}
\* (lines 38-40).  A dict is its entries in insertion order; a value that is no
\* dict keeps is_dict = FALSE.
EmptyDict == [is_dict |-> TRUE, v |-> <<>>]
DefaultSettings ==
    [performance_thresholds |-> EmptyDict, tag_definitions |-> EmptyDict,
     system_settings |-> EmptyDict]

\* self.process_categories.update(more): the value of a key already there is
\* replaced in place, a new key is appended.
CategoriesUpdate(categories, more) ==
    LET Put(cs, e) ==
            IF \E i \in 1..Len(cs) : cs[i].category = e.category
            THEN [i \in 1..Len(cs) |-> IF cs[i].category = e.category THEN e ELSE cs[i]]
            ELSE Append(cs, e)
        F[i \in 0..Len(more)] == IF i = 0 THEN categories ELSE Put(F[i - 1], more[i])
    IN F[Len(more)]

\* self.performance_thresholds.get(key, default)
ThresholdGet(thresholds, key, default) ==
    IF \E i \in 1..Len(thresholds) : thresholds[i].key = key
    THEN thresholds[CHOOSE i \in 1..Len(thresholds) : thresholds[i].key = key].value
    ELSE default

\* _update_performance_tags_from_config (lines 74-94): the thresholds the new
\* closures hold; a performance_thresholds that is truthy and no dict has no
\* get and raises AttributeError.
UpdatePerformanceTags(pt, performance_thresholds) ==
    IF performance_thresholds.v = <<>> THEN [raised |-> "", performance_tags |-> pt]
    ELSE IF ~performance_thresholds.is_dict
    THEN [raised |-> "AttributeError", performance_tags |-> pt]
    ELSE LET t == performance_thresholds.v
         IN [raised |-> "",
             performance_tags |->
                [cpu_intensive |-> ThresholdGet(t, "cpu_intensive", 70),
                 memory_intensive |-> ThresholdGet(t, "memory_intensive", 30),
                 low_resource_cpu |-> ThresholdGet(t, "low_resource_cpu", 5),
                 low_resource_memory |-> ThresholdGet(t, "low_resource_memory", 5),
                 stable_cpu_min |-> ThresholdGet(t, "stable_cpu_min", 5),
                 stable_cpu_max |-> ThresholdGet(t, "stable_cpu_max", 30),
                 stable_memory_min |-> ThresholdGet(t, "stable_memory_min", 5),
                 stable_memory_max |-> ThresholdGet(t, "stable_memory_max", 20)]]

\* The classifier's attributes load_config writes.
ConfigState(categories, rules, pt, st) ==
    [process_categories |-> categories, custom_rules |-> rules,
     performance_tags |-> pt, settings |-> st]

\* load_config (lines 46-72) on the state s and the file doc.  doc.kind is
\* "missing" (os.path.exists is False), "invalid" (json.load raises),
\* "array" (the document is no object: config.get raises) or "object".
\* Every exception is caught at line 70 and answered with False; what was
\* assigned before it stays assigned.
LoadConfig(s, doc) ==
    IF doc.kind = "missing" THEN [ret |-> FALSE, raised |-> "", state |-> s]
    ELSE IF doc.kind = "invalid"
    THEN [ret |-> FALSE, raised |-> "JSONDecodeError", state |-> s]
    ELSE IF doc.kind = "array"
    THEN [ret |-> FALSE, raised |-> "AttributeError", state |-> s]
    ELSE IF doc.process_categories.has /\ ~doc.process_categories.is_dict
    THEN [ret |-> FALSE, raised |-> "TypeError", state |-> s]
    ELSE LET categories == CategoriesUpdate(s.process_categories,
                                            doc.process_categories.v)
             AsDict(m) == [is_dict |-> m.is_dict, v |-> m.v]
             st == [performance_thresholds |-> AsDict(doc.performance_thresholds),
                    tag_definitions |-> AsDict(doc.tag_definitions),
                    system_settings |-> AsDict(doc.system_settings)]
             u == UpdatePerformanceTags(s.performance_tags, st.performance_thresholds)
         IN [ret |-> u.raised = "", raised |-> u.raised,
             state |-> ConfigState(categories, doc.custom_rules.v,
                                   u.performance_tags, st)]

NoLoad == [op |-> "none", ret |-> FALSE, raised |-> "",
           before |-> ConfigState(<<>>, <<>>, DefaultPerformanceTags, DefaultSettings)]

\* ProcessClassifier() without a configuration file (lines 16-40).
ClassifierInit ==
    /\ process_categories = DefaultProcessCategories
    /\ custom_rules = <<>>
    /\ performance_tags = DefaultPerformanceTags
    /\ cls = NoCall
    /\ settings = DefaultSettings
    /\ load = NoLoad

(***************************************************************************)
(* analyzer.py and detector.py: the two anomaly detectors                  *)
(***************************************************************************)
\* The feature vector [cpu, memory, threads, nice] the collector attaches to a
\* process and analyzer.detect builds itself (lines 20-27).
Features(p) == <<p.cpu, p.memory, p.threads, p.nice>>

\* AnomalyDetector.__init__: random_anomaly_rate = 0.03, in hundredths.
random_rate == 3

\* AnomalyDetector.explain (lines 64-97).  The comments are named by what they
\* say: the three rule-based ones, then the one on the origin of the verdict.
Explain(p, is_anomaly, source) ==
    LET cpu == IF p.cpu > 80 THEN "cpu_high"
               ELSE IF p.cpu > 20 THEN "cpu_elevated"
               ELSE "cpu_normal"
        memory == IF p.memory > 5 THEN "memory_elevated" ELSE "memory_normal"
        threads == IF p.threads > 50 THEN "threads_elevated" ELSE "threads_normal"
        origin == IF is_anomaly
                  THEN IF source = "model" THEN <<"differs_from_most">>
                       ELSE IF source = "random" THEN <<"potential_risk">>
                       ELSE <<>>
                  ELSE <<"behaves_normally">>
    IN <<cpu, memory, threads>> \o origin

\* Mutant: the random draw is looked at before the model's verdict.
Source_RandomFirst(model_anomaly, random_anomaly) ==
    IF random_anomaly THEN "random"
    ELSE IF model_anomaly THEN "model"
    ELSE "normal"

\* AnomalyDetector.detect, lines 116-121.
Source(model_anomaly, random_anomaly) ==
    IF model_anomaly THEN "model"
    ELSE IF random_anomaly THEN "random"
    ELSE "normal"

\* AnomalyDetector.detect, the loop body (lines 107-133) for one process: pred
\* and score are the model's answers for it, draw is random.random() in
\* hundredths.  source is the local of lines 116-121; the dict the code
\* appends has no such key, the model keeps it beside the dict's fields.
DetectOne(p, pred, score, draw) ==
    LET model_anomaly == pred = -1
        random_anomaly == draw < random_rate
        is_anomaly == model_anomaly \/ random_anomaly
        source == Source(model_anomaly, random_anomaly)
    IN [pid |-> p.pid, name |-> p.name, cpu |-> p.cpu, memory |-> p.memory,
        threads |-> p.threads, nice |-> p.nice,
        anomaly |-> is_anomaly, score |-> score,
        reasons |-> Explain(p, is_anomaly, source), source |-> source]

\* AnomalyDetector.detect (lines 99-135): one predict and one
\* decision_function call for the batch, then the loop.
DetectorResults(processes, model, draws) ==
    [i \in 1..Len(processes) |->
        DetectOne(processes[i], model[Features(processes[i])].pred,
                  model[Features(processes[i])].score, draws[i])]

\* ProcessAnomalyDetector.detect (lines 13-37): the processes themselves, with
\* the keys anomaly and score set.
AnalyzerResults(processes, model) ==
    IF Len(processes) < 10
    THEN [i \in 1..Len(processes) |->
            [pid |-> processes[i].pid, name |-> processes[i].name,
             cpu |-> processes[i].cpu, memory |-> processes[i].memory,
             threads |-> processes[i].threads, nice |-> processes[i].nice,
             anomaly |-> FALSE, score |-> 0]]
    ELSE [i \in 1..Len(processes) |->
            [pid |-> processes[i].pid, name |-> processes[i].name,
             cpu |-> processes[i].cpu, memory |-> processes[i].memory,
             threads |-> processes[i].threads, nice |-> processes[i].nice,
             anomaly |-> (model[Features(processes[i])].pred = -1),
             score |-> model[Features(processes[i])].score]]

\* What goes wrong in a detect call: nothing ("none"); the model raises
\* whatever the batch ("model_unavailable"); process `at` has no features key
\* ("no_features"), a feature vector the model rejects ("bad_vector"), or a
\* field that int() / float() rejects ("bad_field").
NoFault == [kind |-> "none", at |-> 0]

\* Mutant: an exception in the loop hands back the results appended so far.
DetectRaised_KeepsPartial(exc, partial) == [raised |-> exc, results |-> partial]

\* An exception leaves detect: the caller gets the exception and nothing of
\* the local results list.
DetectRaised(exc, partial) == [raised |-> exc, results |-> <<>>]

\* AnomalyDetector.detect (lines 99-135) with its failures: line 100 raises
\* KeyError, lines 102-103 raise what the model raises, lines 124-129 raise
\* at the element that does not convert, after the elements before it were
\* appended.
Detect(processes, model, draws, fault) ==
    IF fault.kind = "no_features" THEN DetectRaised("KeyError", <<>>)
    ELSE IF fault.kind = "model_unavailable" THEN DetectRaised("ModelError", <<>>)
    ELSE IF fault.kind = "bad_vector" THEN DetectRaised("ValueError", <<>>)
    ELSE IF fault.kind = "bad_field"
    THEN DetectRaised("TypeError",
                      DetectorResults(SubSeq(processes, 1, fault.at - 1), model, draws))
    ELSE [raised |-> "", results |-> DetectorResults(processes, model, draws)]

\* ProcessAnomalyDetector.detect (lines 13-37) with its failures: a batch of
\* fewer than 10 reads no field and calls no model; otherwise np.array /
\* fit_predict (lines 29-30) raise before any process is written to.  It does
\* not read the features key.
AnalyzerDetect(processes, model, fault) ==
    IF Len(processes) >= 10
       /\ fault.kind \in {"model_unavailable", "bad_vector", "bad_field"}
    THEN [raised |-> IF fault.kind = "model_unavailable" THEN "ModelError"
                     ELSE "ValueError",
          results |-> <<>>]
    ELSE [raised |-> "", results |-> AnalyzerResults(processes, model)]

NoDetect == [fn |-> "none", processes |-> <<>>, model |-> <<>>, draws |-> <<>>,
             fault |-> NoFault, raised |-> "", results |-> <<>>]

\* Threads calling one shared LabelManager.
Writers == {"w1", "w2"}
Readers == {"r1"}
Threads == Writers \cup Readers

\* A thread between calls: its position, the arguments and locals of its call,
\* the outcome of its last call, and whether the call met a record whose tag
\* set was empty.
IdleThread ==
    [pc |-> "idle", op |-> "none", pid |-> 0, label |-> "", note |-> NoNote,
     keys0 |-> <<>>, pos |-> 0, acc |-> <<>>, ret |-> "none",
     seen_empty |-> FALSE, calls |-> 0]

NoOp == [op |-> "none", pid |-> 0, label |-> "", ret |-> FALSE, only |-> FALSE,
         out |-> {}]

(***************************************************************************)
(* The label store used by one caller at a time                            *)
(***************************************************************************)
Init ==
    /\ labels_db = LoadLabels(NoFile).labels_db
    /\ tag_definitions = LoadLabels(NoFile).tag_definitions
    /\ blob = NoFile
    /\ clock = 0
    /\ last_op = NoOp
    /\ thr = [t \in Threads |-> IdleThread]
    /\ ClassifierInit
    /\ det = NoDetect

\* Time passes between and during calls.
Tick ==
    /\ clock < MaxClock
    /\ clock' = clock + 1
    /\ UNCHANGED <<labels_db, tag_definitions, blob, last_op, thr, cls_vars, det_vars>>

AddLabel(pid, label, note) ==
    /\ labels_db' = AddLabelMem(labels_db, pid, label, note, clock)
    /\ blob' = SaveLabels(labels_db', tag_definitions, clock)
    /\ last_op' = [op |-> "add", pid |-> pid, label |-> label, ret |-> TRUE,
                   only |-> FALSE, out |-> {}]
    /\ UNCHANGED <<tag_definitions, clock, thr, cls_vars, det_vars>>

\* Mutant: the file is not rewritten when the call deletes the record.
RemoveLabel_NoSaveOnDelete(pid, label) ==
    /\ IF RemoveGuard(labels_db, pid, label)
       THEN /\ labels_db' = RemoveLabelMem(labels_db, pid, label, clock)
            /\ blob' = IF Has(labels_db', pid)
                       THEN SaveLabels(labels_db', tag_definitions, clock)
                       ELSE blob
       ELSE UNCHANGED <<labels_db, blob>>
    /\ last_op' = [op |-> "remove", pid |-> pid, label |-> label,
                   ret |-> RemoveGuard(labels_db, pid, label),
                   only |-> GetProcessLabels(labels_db, pid) = {label},
                   out |-> {}]
    /\ UNCHANGED <<tag_definitions, clock, thr, cls_vars, det_vars>>

RemoveLabel(pid, label) ==
    /\ IF RemoveGuard(labels_db, pid, label)
       THEN /\ labels_db' = RemoveLabelMem(labels_db, pid, label, clock)
            /\ blob' = SaveLabels(labels_db', tag_definitions, clock)
       ELSE UNCHANGED <<labels_db, blob>>
    /\ last_op' = [op |-> "remove", pid |-> pid, label |-> label,
                   ret |-> RemoveGuard(labels_db, pid, label),
                   only |-> GetProcessLabels(labels_db, pid) = {label},
                   out |-> {}]
    /\ UNCHANGED <<tag_definitions, clock, thr, cls_vars, det_vars>>

\* A new LabelManager is constructed on the same storage file.
Restart ==
    /\ labels_db' = LoadLabels(blob).labels_db
    /\ tag_definitions' = LoadLabels(blob).tag_definitions
    /\ last_op' = [NoOp EXCEPT !.op = "init"]
    /\ UNCHANGED <<blob, clock, thr, cls_vars, det_vars>>

GetLabels(pid) ==
    /\ last_op' = [NoOp EXCEPT !.op = "get", !.pid = pid,
                               !.out = GetProcessLabels(labels_db, pid)]
    /\ UNCHANGED <<labels_db, tag_definitions, blob, clock, thr, cls_vars, det_vars>>

Next ==
    \/ Tick
    \/ \E pid \in Pids, label \in Tags, note \in NoteArgs : AddLabel(pid, label, note)
    \/ \E pid \in Pids, label \in Tags : RemoveLabel(pid, label)
    \/ Restart
    \/ \E pid \in Pids : GetLabels(pid)

Spec == Init /\ [][Next]_vars

(***************************************************************************)
(* Properties of the label store used by one caller at a time              *)
(***************************************************************************)
\* The label records of a saved document, read as load_labels reads them.
BlobRecords(doc) ==
    {[pid |-> ParseInt(e.key), tags |-> Range(e.tags), notes |-> e.notes] :
        e \in Range(doc.labels)}

MemRecords(db) ==
    {[pid |-> r.pid, tags |-> r.tags, notes |-> r.notes] : r \in Range(db)}

BlobMatchesMemory ==
    /\ Len(blob.labels) = Len(labels_db)
    /\ BlobRecords(blob) = MemRecords(labels_db)

\* C1: every pid in the store maps to a non-empty tag set, and a removeLabel
\* that removed a record's last tag has removed the whole record.
C1_NonEmptyTagSets ==
    /\ \A i \in 1..Len(labels_db) : labels_db[i].tags # {}
    /\ (last_op.op = "remove" /\ last_op.ret /\ last_op.only)
          => ~Has(labels_db, last_op.pid)

\* The last tag of one record was removed while another record remains.
C1_Witness ==
    /\ last_op.op = "remove" /\ last_op.ret /\ last_op.only
    /\ Len(labels_db) >= 1

\* C4: after every addLabel and every removeLabel that returned true, the
\* label records in the durable blob are exactly the in-memory records.
C4_WholeStoreOverwrite ==
    (last_op.op = "add" \/ (last_op.op = "remove" /\ last_op.ret))
        => /\ blob.kind = "doc"
           /\ BlobMatchesMemory

\* A record was deleted by removeLabel after the blob had held it.
C4_Witness ==
    /\ last_op.op = "remove" /\ last_op.ret /\ last_op.only
    /\ blob.kind = "doc"
    /\ Len(labels_db) = 1
    /\ labels_db[1].notes # ""

\* C5: saving the store and loading it into a fresh LabelManager reproduces
\* the same pids with identical tag sets and notes.
C5_RoundTrip ==
    LET loaded == LoadLabels(SaveLabels(labels_db, tag_definitions, clock)).labels_db
    IN /\ Keys(loaded) = Keys(labels_db)
       /\ Len(loaded) = Len(labels_db)
       /\ \A pid \in Keys(labels_db) :
             /\ Lookup(loaded, pid).tags = Lookup(labels_db, pid).tags
             /\ Lookup(loaded, pid).notes = Lookup(labels_db, pid).notes

\* A store reloaded from its file that holds a one-digit and a two-digit pid,
\* a record with two tags and a record with a note.
C5_Witness ==
    /\ last_op.op = "init"
    /\ Len(labels_db) = 2
    /\ \E i \in 1..2 : labels_db[i].pid >= 10
    /\ \E i \in 1..2 : Cardinality(labels_db[i].tags) = 2
    /\ \E i \in 1..2 : labels_db[i].notes # ""

\* C6: right after addLabel(pid, tag) getLabels(pid) contains tag; after
\* removeLabel of the only tag of pid, getLabels(pid) is empty and pid is in
\* searchByTag(t) for no tag t.
C6_AddGetRemoveSearch ==
    /\ last_op.op = "add"
          => last_op.label \in GetProcessLabels(labels_db, last_op.pid)
    /\ (last_op.op = "remove" /\ last_op.only)
          => /\ last_op.ret
             /\ GetProcessLabels(labels_db, last_op.pid) = {}
             /\ \A t \in Tags \cup TagNames(tag_definitions) :
                   last_op.pid \notin Range(SearchByTag(labels_db, t))

\* addLabel on a record that already had another tag.
C6_Witness ==
    /\ last_op.op = "add"
    /\ Cardinality(GetProcessLabels(labels_db, last_op.pid)) = 2

(***************************************************************************)
(* The label store called from several threads.  LabelManager takes no lock, *)
(* so a thread switch may fall between any two statements of a call.  One   *)
(* step below is one statement (a loop: one iteration).  The write of the   *)
(* file (open, json.dump, close) is taken as one step, and a dict iteration *)
(* goes on only while the dict holds the keys it held when the loop began   *)
(* (a changed size raises RuntimeError, as CPython does).                   *)
(***************************************************************************)
KeyList(db) == [i \in 1..Len(db) |-> db[i].pid]

\* Stores a sequential run reaches, from which the threads start.
SeedDbs == {<<>>, AddLabelMem(<<>>, 9, "adhoc", NoNote, 0)}

InitConc ==
    /\ \E db \in SeedDbs :
          /\ labels_db = db
          /\ blob = IF db = <<>> THEN NoFile
                    ELSE SaveLabels(db, DefaultTagDefinitions, 0)
    /\ tag_definitions = DefaultTagDefinitions
    /\ clock = 0
    /\ last_op = NoOp
    /\ thr = [t \in Threads |-> IdleThread]
    /\ ClassifierInit
    /\ det = NoDetect

Goto(t, pc) == thr' = [thr EXCEPT ![t].pc = pc]
\* The call ends (a return value or an exception); its locals are dropped, a
\* reader's result is kept.
Return(t, ret) ==
    thr' = [thr EXCEPT ![t] =
               [IdleThread EXCEPT !.op = thr[t].op, !.pid = thr[t].pid,
                                  !.label = thr[t].label, !.ret = ret,
                                  !.acc = IF t \in Readers THEN thr[t].acc ELSE <<>>,
                                  !.seen_empty = thr[t].seen_empty,
                                  !.calls = thr[t].calls]]
StoreKeeps == UNCHANGED <<tag_definitions, clock, last_op, cls_vars, det_vars>>

\* The notes the threads pass.
ConcNoteArgs == {NoNote, [given |-> TRUE, text |-> "n1"]}

\* A writer thread enters add_label or remove_label.
CallAdd(t, pid, label, note) ==
    /\ t \in Writers /\ thr[t].pc = "idle" /\ thr[t].calls < MaxCalls
    /\ thr' = [thr EXCEPT ![t] = [IdleThread EXCEPT !.pc = "a36", !.op = "add",
                  !.pid = pid, !.label = label, !.note = note,
                  !.calls = thr[t].calls + 1]]
    /\ UNCHANGED <<labels_db, blob>> /\ StoreKeeps

CallRemove(t, pid, label) ==
    /\ t \in Writers /\ thr[t].pc = "idle" /\ thr[t].calls < MaxCalls
    /\ thr' = [thr EXCEPT ![t] = [IdleThread EXCEPT !.pc = "r58", !.op = "remove",
                  !.pid = pid, !.label = label,
                  !.calls = thr[t].calls + 1]]
    /\ UNCHANGED <<labels_db, blob>> /\ StoreKeeps

\* line 36: if pid not in self.labels_db
AddTest(t) ==
    /\ thr[t].pc = "a36"
    /\ Goto(t, IF Has(labels_db, thr[t].pid) THEN "a47" ELSE "a37")
    /\ UNCHANGED <<labels_db, blob>> /\ StoreKeeps

\* lines 37-41: self.labels_db[pid] = {'tags': set(), 'notes': '', ...}
AddCreate(t) ==
    /\ thr[t].pc = "a37"
    /\ labels_db' = DictSet(labels_db, [pid |-> thr[t].pid, tags |-> {},
                                         notes |-> "", last_updated |-> clock])
    /\ Goto(t, "a47")
    /\ UNCHANGED blob /\ StoreKeeps

\* line 47: self.labels_db[pid]['tags'].add(label)
AddTag(t) ==
    /\ thr[t].pc = "a47"
    /\ IF Has(labels_db, thr[t].pid)
       THEN /\ labels_db' = DictSet(labels_db,
                  [Lookup(labels_db, thr[t].pid) EXCEPT
                      !.tags = @ \cup {thr[t].label}])
            /\ Goto(t, "a48")
       ELSE /\ Return(t, "KeyError")
            /\ UNCHANGED labels_db
    /\ UNCHANGED blob /\ StoreKeeps

\* lines 48-49: if note: self.labels_db[pid]['notes'] = note
AddNote(t) ==
    /\ thr[t].pc = "a48"
    /\ IF ~(thr[t].note.given /\ thr[t].note.text # "")
       THEN Goto(t, "a50") /\ UNCHANGED labels_db
       ELSE IF Has(labels_db, thr[t].pid)
       THEN /\ labels_db' = DictSet(labels_db,
                  [Lookup(labels_db, thr[t].pid) EXCEPT !.notes = thr[t].note.text])
            /\ Goto(t, "a50")
       ELSE /\ Return(t, "KeyError")
            /\ UNCHANGED labels_db
    /\ UNCHANGED blob /\ StoreKeeps

\* lines 50 and 60: self.labels_db[pid]['last_updated'] = datetime.now().isoformat()
Touch(t) ==
    /\ thr[t].pc \in {"a50", "r60"}
    /\ IF Has(labels_db, thr[t].pid)
       THEN /\ labels_db' = DictSet(labels_db,
                  [Lookup(labels_db, thr[t].pid) EXCEPT !.last_updated = clock])
            /\ Goto(t, IF thr[t].pc = "a50" THEN "s129" ELSE "r63")
       ELSE /\ Return(t, "KeyError")
            /\ UNCHANGED labels_db
    /\ UNCHANGED blob /\ StoreKeeps

\* line 58: if pid in self.labels_db and label in self.labels_db[pid]['tags']
RemoveTest(t) ==
    /\ thr[t].pc = "r58"
    /\ IF RemoveGuard(labels_db, thr[t].pid, thr[t].label)
       THEN Goto(t, "r59")
       ELSE Return(t, "False")
    /\ UNCHANGED <<labels_db, blob>> /\ StoreKeeps

\* line 59: self.labels_db[pid]['tags'].remove(label)
RemoveTag(t) ==
    /\ thr[t].pc = "r59"
    /\ IF RemoveGuard(labels_db, thr[t].pid, thr[t].label)
       THEN /\ labels_db' = DictSet(labels_db,
                  [Lookup(labels_db, thr[t].pid) EXCEPT
                      !.tags = @ \ {thr[t].label}])
            /\ Goto(t, "r60")
       ELSE /\ Return(t, "KeyError")
            /\ UNCHANGED labels_db
    /\ UNCHANGED blob /\ StoreKeeps

\* line 63: if not self.labels_db[pid]['tags']
RemoveTestEmpty(t) ==
    /\ thr[t].pc = "r63"
    /\ IF ~Has(labels_db, thr[t].pid) THEN Return(t, "KeyError")
       ELSE IF Lookup(labels_db, thr[t].pid).tags = {} THEN Goto(t, "r64")
       ELSE Goto(t, "s129")
    /\ UNCHANGED <<labels_db, blob>> /\ StoreKeeps

\* line 64: del self.labels_db[pid]
RemoveDelete(t) ==
    /\ thr[t].pc = "r64"
    /\ IF Has(labels_db, thr[t].pid)
       THEN /\ labels_db' = DictDel(labels_db, thr[t].pid)
            /\ Goto(t, "s129")
       ELSE /\ Return(t, "KeyError")
            /\ UNCHANGED labels_db
    /\ UNCHANGED blob /\ StoreKeeps

\* save_labels, lines 128-129: save_data = {}; the loop over items() begins.
SaveBegin(t) ==
    /\ thr[t].pc = "s129"
    /\ thr' = [thr EXCEPT ![t].pc = "s130", ![t].keys0 = KeyList(labels_db),
                          ![t].pos = 0, ![t].acc = <<>>]
    /\ UNCHANGED <<labels_db, blob>> /\ StoreKeeps

\* save_labels, lines 129-134: one turn of the loop.
SaveLoop(t) ==
    /\ thr[t].pc = "s130"
    /\ IF Len(labels_db) # Len(thr[t].keys0) THEN Return(t, "RuntimeError")
       ELSE IF thr[t].pos = Len(labels_db) THEN Goto(t, "s136")
       ELSE /\ KeyList(labels_db) = thr[t].keys0
            /\ thr' = [thr EXCEPT
                  ![t].pos = @ + 1,
                  ![t].acc = @ \o SaveData(<<labels_db[thr[t].pos + 1]>>)]
    /\ UNCHANGED <<labels_db, blob>> /\ StoreKeeps

\* save_labels, lines 136-141: the file is overwritten; the call returns True.
SaveWrite(t) ==
    /\ thr[t].pc = "s136"
    /\ blob' = SaveDoc(thr[t].acc, tag_definitions, clock)
    /\ Return(t, "True")
    /\ UNCHANGED labels_db /\ StoreKeeps

\* get_process_labels(pid), one lookup.
ReadLabels(t, pid) ==
    /\ t \in Readers /\ thr[t].pc = "idle" /\ thr[t].calls < MaxCalls
    /\ thr' = [thr EXCEPT ![t] = [IdleThread EXCEPT !.op = "get", !.pid = pid,
                  !.acc = SetToList(GetProcessLabels(labels_db, pid)),
                  !.seen_empty = Has(labels_db, pid)
                                 /\ Lookup(labels_db, pid).tags = {},
                  !.ret = "done", !.calls = thr[t].calls + 1]]
    /\ UNCHANGED <<labels_db, blob>> /\ StoreKeeps

\* search_by_tag(tag) and get_tag_statistics(): the loop over the dict begins.
CallScan(t, op, label) ==
    /\ t \in Readers /\ thr[t].pc = "idle" /\ thr[t].calls < MaxCalls
    /\ thr' = [thr EXCEPT ![t] = [IdleThread EXCEPT !.pc = "q81", !.op = op,
                  !.label = label, !.keys0 = KeyList(labels_db),
                  !.calls = thr[t].calls + 1]]
    /\ UNCHANGED <<labels_db, blob>> /\ StoreKeeps

\* search_by_tag lines 81-83, get_tag_statistics lines 100-102: one turn.
ScanLoop(t) ==
    /\ thr[t].pc = "q81"
    /\ IF Len(labels_db) # Len(thr[t].keys0) THEN Return(t, "RuntimeError")
       ELSE IF thr[t].pos = Len(labels_db) THEN Return(t, "done")
       ELSE /\ KeyList(labels_db) = thr[t].keys0
            /\ LET info == labels_db[thr[t].pos + 1]
               IN thr' = [thr EXCEPT
                     ![t].pos = @ + 1,
                     ![t].seen_empty = @ \/ info.tags = {},
                     ![t].acc =
                        IF thr[t].op = "search"
                        THEN IF thr[t].label \in info.tags
                             THEN Append(@, info.pid) ELSE @
                        ELSE @ \o SetToList(info.tags)]
    /\ UNCHANGED <<labels_db, blob>> /\ StoreKeeps

NextConc ==
    \/ \E t \in Writers, pid \in Pids, label \in Tags, note \in ConcNoteArgs :
          CallAdd(t, pid, label, note)
    \/ \E t \in Writers, pid \in Pids, label \in Tags : CallRemove(t, pid, label)
    \/ \E t \in Writers : AddTest(t)
    \/ \E t \in Writers : AddCreate(t)
    \/ \E t \in Writers : AddTag(t)
    \/ \E t \in Writers : AddNote(t)
    \/ \E t \in Writers : Touch(t)
    \/ \E t \in Writers : RemoveTest(t)
    \/ \E t \in Writers : RemoveTag(t)
    \/ \E t \in Writers : RemoveTestEmpty(t)
    \/ \E t \in Writers : RemoveDelete(t)
    \/ \E t \in Writers : SaveBegin(t)
    \/ \E t \in Writers : SaveLoop(t)
    \/ \E t \in Writers : SaveWrite(t)
    \/ \E t \in Readers, pid \in Pids : ReadLabels(t, pid)
    \/ \E t \in Readers, label \in Tags : CallScan(t, "search", label)
    \/ \E t \in Readers : CallScan(t, "stats", "")
    \/ \E t \in Readers : ScanLoop(t)

SpecConc == InitConc /\ [][NextConc]_vars

\* C2: once the concurrent addLabel/removeLabel calls have completed, the
\* durable blob holds the effect of all of them and equals the in-memory store.
C2_SerializedWrites ==
    (\A w \in Writers : thr[w].pc = "idle" /\ thr[w].ret \in {"True", "False"})
        => BlobMatchesMemory

\* C3: a getLabels, searchByTag or tagStatistics call running beside a mutation
\* sees the store before or after it: it never meets a record whose tag set is
\* empty, and it is not broken off by the mutation.
C3_ConsistentSnapshot ==
    \A r \in Readers : ~thr[r].seen_empty /\ thr[r].ret # "RuntimeError"

(***************************************************************************)
(* The classifier and the pipeline of api_server                           *)
(***************************************************************************)
ProcessNames ==
    { <<"s", "s", "h", "d">>,
      <<"P", "y", "t", "h", "o", "n", "3">>,
      <<"n", "g", "i", "n", "x", "-", "w", "o", "r", "k", "e", "r">>,
      <<"s", "y", "s", "t", "e", "m", "d", "-", "u", "d", "e", "v", "d">>,
      <<"z", "z">> }
\* cpu and memory percentages on both sides of every threshold of the code.
CpuValues == {0, 2, 5, 51, 71, 81}
MemoryValues == {0, 1, 5, 31, 51}

\* Arguments given to add_custom_rule.
RuleChoices ==
    { NewRule("custom", << <<"s", "s", "h">> >>, NoThreshold, NoThreshold, 0),
      NewRule("unknown", << <<"z", "z">> >>, NoThreshold, NoThreshold, 1),
      NewRule("network_services", << <<"n", "g", "i", "n", "x">> >>,
              [set |-> TRUE, v |-> 50], NoThreshold, 2),
      NewRule("noise", << <<"S", "S", "H">> >>, NoThreshold, NoThreshold, -1) }

\* Label stores the pipeline reads: pid 9 carries one of these tag sets.
ViewLabelSets ==
    { {}, {"high_priority"}, {"business_critical"},
      {"high_priority", "business_critical"}, {"monitor_closely"} }

RECURSIVE AddAll(_, _, _)
AddAll(db, pid, labels) ==
    IF labels = {} THEN db
    ELSE LET l == CHOOSE x \in labels : TRUE
         IN AddAll(AddLabelMem(db, pid, l, NoNote, 0), pid, labels \ {l})

InitClassify ==
    /\ \E labels \in ViewLabelSets :
          /\ labels_db = AddAll(<<>>, 9, labels)
          /\ blob = IF labels = {} THEN NoFile
                    ELSE SaveLabels(labels_db, DefaultTagDefinitions, 0)
    /\ tag_definitions = DefaultTagDefinitions
    /\ clock = 0
    /\ last_op = NoOp
    /\ thr = [t \in Threads |-> IdleThread]
    /\ process_categories = DefaultProcessCategories
    /\ custom_rules = <<>>
    /\ performance_tags = DefaultPerformanceTags
    /\ settings = DefaultSettings
    /\ load = NoLoad
    /\ \E pid \in Pids, name \in ProcessNames, cpu \in CpuValues,
          memory \in MemoryValues :
          cls = [NoCall EXCEPT !.pid = pid, !.name = name, !.cpu = cpu,
                               !.memory = memory]
    /\ det = NoDetect

\* add_custom_rule (lines 149-161)
AddCustomRule(rule) ==
    /\ Len(custom_rules) < MaxRules
    /\ custom_rules' = Append(custom_rules, rule)
    /\ UNCHANGED <<process_categories, performance_tags, cls, conf_vars>>
    /\ UNCHANGED <<store_vars, thr, det_vars>>

\* GET /api/classify-processes; the sampler returns the process cls names
\* (pid, name, cpu, memory).
ClassifyAndTagProcesses ==
    /\ cls' = [cls EXCEPT !.op = "pipeline",
                          !.view = ClassifyAndTag(process_categories, custom_rules,
                                       performance_tags, labels_db,
                                       cls.pid, cls.name, cls.cpu, cls.memory)]
    /\ UNCHANGED <<process_categories, custom_rules, performance_tags, conf_vars>>
    /\ UNCHANGED <<store_vars, thr, det_vars>>

NextClassify ==
    \/ \E rule \in RuleChoices : AddCustomRule(rule)
    \/ ClassifyAndTagProcesses

SpecClassify == InitClassify /\ [][NextClassify]_vars

DefaultRuleState ==
    /\ process_categories = DefaultProcessCategories
    /\ custom_rules = <<>>
    /\ performance_tags = DefaultPerformanceTags

\* C7: classify returns confidence 0 exactly when it returns category
\* "unknown", for every sample and every rule state.
C7_ConfidenceZeroIffUnknown ==
    cls.op = "pipeline"
        => /\ cls.view.raised = ""
           /\ (cls.view.confidence = 0) <=> (cls.view.category = "unknown")

ResourceHeuristicTags ==
    {"low_resource", "cpu_intensive", "memory_intensive", "stable_process"}

SshdSample ==
    /\ cls.op = "pipeline"
    /\ cls.name = <<"s", "s", "h", "d">> /\ cls.cpu = 2 /\ cls.memory = 1
    /\ cls.view.user_labels = <<>>
    /\ DefaultRuleState

\* C8 as stated: the sshd sample (cpu 2, memory 1, no labels, default rules)
\* yields network_services, none of the resource-heuristic tags, blue, 5.
C8_SshdNoResourceTags ==
    SshdSample
        => /\ cls.view.success
           /\ cls.view.category = "network_services"
           /\ Range(cls.view.tags) \cap ResourceHeuristicTags = {}
           /\ cls.view.color = "blue"
           /\ cls.view.priority = 5

\* C8 amended: the sshd sample yields network_services, the single suggested
\* tag low_resource (the performance-tag predicate cpu < 5 and mem < 5) and
\* none of cpu_intensive, memory_intensive, stable_process, blue, priority 5.
C8_SshdLowResource ==
    SshdSample
        => /\ cls.view.success
           /\ cls.view.category = "network_services"
           /\ cls.view.confidence = 100
           /\ cls.view.tags = <<"low_resource">>
           /\ cls.view.color = "blue"
           /\ cls.view.priority = 5

\* The pipeline has answered for the sshd sample.
C8_Witness == SshdSample /\ cls.view.success

(***************************************************************************)
(* The anomaly detectors                                                   *)
(***************************************************************************)
\* The longest batch handed to detect.
MaxBatch == 10

\* Processes on both sides of every threshold of explain.
SampleKinds ==
    << [name |-> "stress", cpu |-> 81, memory |-> 6, threads |-> 51, nice |-> 0],
       [name |-> "python3", cpu |-> 80, memory |-> 5, threads |-> 50, nice |-> 0],
       [name |-> "sshd", cpu |-> 20, memory |-> 1, threads |-> 4, nice |-> 0] >>

\* A batch of n processes, pids 1..n, cycling through the kinds from `first`.
Batch(n, first) ==
    [i \in 1..n |->
        LET k == SampleKinds[((i + first) % Len(SampleKinds)) + 1]
        IN [pid |-> i, name |-> k.name, cpu |-> k.cpu, memory |-> k.memory,
            threads |-> k.threads, nice |-> k.nice]]

\* What predict and decision_function answer for one feature vector: an
\* outlier (-1) with a negative score or an inlier (1) with a positive one,
\* scores in hundredths.
ModelOutputs == {[pred |-> -1, score |-> -12], [pred |-> 1, score |-> 7]}
FeatureVectors == {Features(SampleKinds[k]) : k \in 1..Len(SampleKinds)}
\* random.random(), in hundredths: just below the rate and on it.
DrawValues == {random_rate - 1, random_rate}

\* The failures of a detect call on a batch of n processes.
Faults(n) ==
    {[kind |-> "model_unavailable", at |-> 0]}
    \cup {[kind |-> k, at |-> i] :
             k \in {"no_features", "bad_vector", "bad_field"}, i \in 1..n}

\* The batch the collector returned, what the model answers for each feature
\* vector, and what random.random() returns for each element.
InitDetect ==
    /\ labels_db = <<>>
    /\ tag_definitions = DefaultTagDefinitions
    /\ blob = NoFile
    /\ clock = 0
    /\ last_op = NoOp
    /\ thr = [t \in Threads |-> IdleThread]
    /\ ClassifierInit
    /\ \E n \in 1..MaxBatch, first \in 0..(Len(SampleKinds) - 1),
          model \in [FeatureVectors -> ModelOutputs] :
          \/ \E draws \in [1..n -> DrawValues] :
                det = [NoDetect EXCEPT !.processes = Batch(n, first),
                                       !.model = model, !.draws = draws]
          \/ \E fault \in Faults(n) :
                det = [NoDetect EXCEPT !.processes = Batch(n, first),
                                       !.model = model,
                                       !.draws = [i \in 1..n |-> random_rate],
                                       !.fault = fault]

\* ProcessAnomalyDetector.detect(processes)
ProcessAnomalyDetectorDetect ==
    /\ LET r == AnalyzerDetect(det.processes, det.model, det.fault)
       IN det' = [det EXCEPT !.fn = "ProcessAnomalyDetector.detect",
                             !.raised = r.raised, !.results = r.results]
    /\ UNCHANGED <<store_vars, thr, cls_vars>>

\* AnomalyDetector.detect(processes), what GET /api/processes calls.
AnomalyDetectorDetect ==
    /\ LET r == Detect(det.processes, det.model, det.draws, det.fault)
       IN det' = [det EXCEPT !.fn = "AnomalyDetector.detect",
                             !.raised = r.raised, !.results = r.results]
    /\ UNCHANGED <<store_vars, thr, cls_vars>>

NextDetect ==
    \/ ProcessAnomalyDetectorDetect
    \/ AnomalyDetectorDetect

SpecDetect == InitDetect /\ [][NextDetect]_vars

\* C9: detect on a batch of fewer than 10 samples returns anomaly = False and
\* score = 0.0 for every element, whatever the features, the model and the
\* random draw.
C9_SmallBatchBypass ==
    (det.fn # "none" /\ det.raised = "" /\ Len(det.processes) < 10)
        => /\ Len(det.results) = Len(det.processes)
           /\ \A i \in 1..Len(det.results) :
                 /\ det.results[i].anomaly = FALSE
                 /\ det.results[i].score = 0

OriginComments == {"differs_from_most", "potential_risk", "behaves_normally"}
OriginOf(source) ==
    CASE source = "model" -> "differs_from_most"
      [] source = "random" -> "potential_risk"
      [] source = "normal" -> "behaves_normally"

\* C10: AnomalyDetector.detect gives every element one source among model,
\* random and normal; the source is model exactly when the model flagged the
\* element, whatever the draw, and random exactly when only the draw did;
\* anomaly is False exactly when the source is normal; reasons is not empty
\* and its last entry is the one comment on the origin, that of the source.
C10_SourceAttribution ==
    (det.fn = "AnomalyDetector.detect" /\ det.raised = "")
        => /\ Len(det.results) = Len(det.processes)
           /\ \A i \in 1..Len(det.results) :
                 LET r == det.results[i]
                     flagged == det.model[Features(det.processes[i])].pred = -1
                     drawn == det.draws[i] < random_rate
                 IN /\ r.source \in {"model", "random", "normal"}
                    /\ (r.source = "model") <=> flagged
                    /\ (r.source = "random") <=> (~flagged /\ drawn)
                    /\ (r.anomaly = FALSE) <=> (r.source = "normal")
                    /\ r.reasons # <<>>
                    /\ r.reasons[Len(r.reasons)] = OriginOf(r.source)
                    /\ Cardinality({k \in 1..Len(r.reasons) :
                                       r.reasons[k] \in OriginComments}) = 1

\* One batch in which the model flagged an element the draw flagged too, the
\* draw alone flagged another, and a third was flagged by neither.
C10_Witness ==
    /\ det.fn = "AnomalyDetector.detect"
    /\ \E i, j, k \in 1..Len(det.results) :
          /\ det.results[i].source = "model" /\ det.draws[i] < random_rate
          /\ det.results[j].source = "random"
          /\ det.results[k].source = "normal"

(***************************************************************************)
(* calculate_priority                                                      *)
(***************************************************************************)
\* C11: the priority the pipeline computed never exceeds 10; it does not
\* decrease when high_priority is added to the labels, when cpu is raised
\* above 80, or when the category becomes system_critical, the other inputs
\* unchanged; with both high_priority and business_critical it is 9.
C11_PriorityMonotone ==
    (cls.op = "pipeline" /\ cls.view.success)
        => LET labels == cls.view.user_labels
               category == cls.view.category
               p == cls.view.priority
           IN /\ p = CalculatePriority(labels, category, cls.cpu)
              /\ p <= 10
              /\ CalculatePriority(Append(labels, "high_priority"), category, cls.cpu) >= p
              /\ \A cpu \in CpuValues :
                    cpu > 80 => CalculatePriority(labels, category, cpu) >= p
              /\ CalculatePriority(labels, "system_critical", cls.cpu) >= p
              /\ {"high_priority", "business_critical"} \subseteq Range(labels) => p = 9

\* The pipeline has ranked a process above 80% cpu that carries both labels.
C11_Witness ==
    /\ cls.op = "pipeline" /\ cls.view.success
    /\ {"high_priority", "business_critical"} \subseteq Range(cls.view.user_labels)
    /\ cls.cpu > 80
    /\ cls.view.priority = 9

(***************************************************************************)
(* The classifier's configuration file                                     *)
(***************************************************************************)
\* Rules as a configuration file spells them: a JSON object may lack a key.
NoWeightRule ==
    [NewRule("custom", << <<"s", "s", "h">> >>, NoThreshold, NoThreshold, 0)
        EXCEPT !.has_weight = FALSE]
NoCategoryRule ==
    [NewRule("", << <<"s", "s", "h">> >>, NoThreshold, NoThreshold, 1)
        EXCEPT !.has_category = FALSE]
NoKeywordsRule ==
    [NewRule("custom", <<>>, NoThreshold, NoThreshold, 1)
        EXCEPT !.has_keywords = FALSE]
NginxRule ==
    NewRule("network_services", << <<"n", "g", "i", "n", "x">> >>,
            [set |-> TRUE, v |-> 50], NoThreshold, 2)

\* The members a configuration document may carry.
DocCategories ==
    { Absent,
      Member(TRUE, << [category |-> "custom", keywords |-> << <<"z", "z">> >>] >>),
      Member(TRUE, << [category |-> "network_services",
                       keywords |-> << <<"z", "z">> >>] >>),
      Member(FALSE, <<>>) }
DocRules ==
    { Absent, Member(FALSE, <<NoWeightRule>>), Member(FALSE, <<NoCategoryRule>>),
      Member(FALSE, <<NoKeywordsRule>>), Member(FALSE, <<NginxRule, NoWeightRule>>),
      Member(FALSE, <<NoCategoryRule, NginxRule>>) }
\* performance_thresholds: absent, {"cpu_intensive": 50}, or the array [1]
\* (an entry without a key).
DocThresholds ==
    { Absent, Member(TRUE, << [key |-> "cpu_intensive", value |-> 50] >>),
      Member(FALSE, << [key |-> "", value |-> 1] >>) }
DocTagDefinitions == { Absent, Member(TRUE, << [key |-> "adhoc", value |-> "teal"] >>) }
DocSystemSettings == { Absent, Member(TRUE, << [key |-> "refresh", value |-> 5] >>) }

ConfigDocs ==
    { [kind |-> k, process_categories |-> Absent, custom_rules |-> Absent,
       performance_thresholds |-> Absent, tag_definitions |-> Absent,
       system_settings |-> Absent] : k \in {"missing", "invalid", "array"} }
    \cup
    { [kind |-> "object", process_categories |-> c, custom_rules |-> r,
       performance_thresholds |-> t, tag_definitions |-> d, system_settings |-> s] :
         c \in DocCategories, r \in DocRules, t \in DocThresholds,
         d \in DocTagDefinitions, s \in DocSystemSettings }

\* A classifier with the default state, no labels, and the process the
\* sampler will return.
InitConfig ==
    /\ labels_db = <<>>
    /\ tag_definitions = DefaultTagDefinitions
    /\ blob = NoFile
    /\ clock = 0
    /\ last_op = NoOp
    /\ thr = [t \in Threads |-> IdleThread]
    /\ process_categories = DefaultProcessCategories
    /\ custom_rules = <<>>
    /\ performance_tags = DefaultPerformanceTags
    /\ settings = DefaultSettings
    /\ load = NoLoad
    /\ \E name \in {<<"s", "s", "h", "d">>,
                    <<"n", "g", "i", "n", "x", "-", "w", "o", "r", "k", "e", "r">>,
                    <<"s", "y", "s", "t", "e", "m", "d", "-", "u", "d", "e", "v", "d">>,
                    <<"z", "z">>},
          cpu \in {2, 51, 71}, memory \in {1, 31} :
          cls = [NoCall EXCEPT !.pid = 9, !.name = name, !.cpu = cpu,
                               !.memory = memory]
    /\ det = NoDetect

\* ProcessClassifier(config_file): __init__ calls load_config(config_file)
\* (lines 43-44), its only caller, before the classifier is used.
LoadConfigFile(doc) ==
    /\ load.op = "none"
    /\ cls.op = "none"
    /\ LET before == ConfigState(process_categories, custom_rules,
                                 performance_tags, settings)
           r == LoadConfig(before, doc)
       IN /\ process_categories' = r.state.process_categories
          /\ custom_rules' = r.state.custom_rules
          /\ performance_tags' = r.state.performance_tags
          /\ settings' = r.state.settings
          /\ load' = [op |-> "load_config", ret |-> r.ret, raised |-> r.raised,
                      before |-> before]
    /\ UNCHANGED <<cls, store_vars, thr, det_vars>>

NextConfig ==
    \/ \E doc \in ConfigDocs : LoadConfigFile(doc)
    \/ ClassifyAndTagProcesses

SpecConfig == InitConfig /\ [][NextConfig]_vars

Malformed(rule) == ~rule.has_category \/ ~rule.has_keywords \/ ~rule.has_weight
RemoveAt(s, i) == SubSeq(s, 1, i - 1) \o SubSeq(s, i + 1, Len(s))

\* C12: a custom rule that lacks category, keywords or weight is skipped:
\* whenever classify answers without that rule in the list, it answers with
\* the rule in the list too, and with the same category, tags and confidence.
C12_MalformedRuleSkipped ==
    cls.op = "pipeline"
        => \A i \in 1..Len(custom_rules) :
              Malformed(custom_rules[i])
                 => LET without == ClassifyProcess(process_categories,
                                       RemoveAt(custom_rules, i), performance_tags,
                                       cls.name, cls.cpu, cls.memory)
                    IN without.raised = ""
                          => /\ cls.view.raised = ""
                             /\ cls.view.category = without.category
                             /\ cls.view.tags = without.tags
                             /\ cls.view.confidence = without.confidence

\* C13: after a load_config that failed, process_categories, custom_rules,
\* the performance tags and thresholds, tag_definitions and system_settings
\* are what they were before the call.
C13_FailedLoadLeavesState ==
    (load.op = "load_config" /\ ~load.ret)
        => ConfigState(process_categories, custom_rules, performance_tags, settings)
              = load.before

\* C14: when the model fails or a process of the batch is malformed, detect
\* of AnomalyDetector fails as a whole: the caller gets an exception and no
\* result for any process of the batch.
C14_WholeBatchFails ==
    (det.fn = "AnomalyDetector.detect" /\ det.fault.kind # "none")
        => det.raised # "" /\ det.results = <<>>

\* detect failed at a process that does not convert, after the processes
\* before it had been scored.
C14_Witness ==
    /\ det.fn = "AnomalyDetector.detect"
    /\ det.fault.kind = "bad_field" /\ det.fault.at > 1
    /\ det.raised = "TypeError"

(***************************************************************************)
(* add_label: the tag set and the note                                     *)
(***************************************************************************)
TagSets(db) == {[pid |-> db[i].pid, tags |-> db[i].tags] : i \in 1..Len(db)}
NotesOf(db, pid) == IF Has(db, pid) THEN Lookup(db, pid).notes ELSE ""

\* C15: after add_label(pid, label, note) a second identical call leaves the
\* tag sets as they are; a call without a note leaves the record's note as it
\* was, and a call that provides a note leaves the record with that note.
C15_AddLabelNote ==
    [][\A pid \in Pids, label \in Tags, note \in NoteArgs :
          AddLabel(pid, label, note)
             => /\ TagSets(AddLabelMem(labels_db', pid, label, note, clock'))
                      = TagSets(labels_db')
                /\ ~note.given => NotesOf(labels_db', pid) = NotesOf(labels_db, pid)
                /\ note.given => NotesOf(labels_db', pid) = note.text]_vars

(***************************************************************************)
(* A LabelManager constructed on a file it finds                           *)
(***************************************************************************)
\* Tag catalogs a storage file may hold.
SavedCatalogs ==
    { DefaultTagDefinitions,
      Append(DefaultTagDefinitions, [tag |-> "adhoc", color |-> "teal"]),
      << [tag |-> "adhoc", color |-> "teal"] >>,
      << [tag |-> "high_priority", color |-> "pink"] >> }
\* Stores a storage file may hold.
SavedStores ==
    { <<>>,
      AddLabelMem(<<>>, 9, "adhoc", [given |-> TRUE, text |-> "n1"], 0),
      AddLabelMem(AddLabelMem(<<>>, 10, "high_priority", NoNote, 0),
                  9, "adhoc", NoNote, 0) }
StorageFiles ==
    { NoFile, [NoFile EXCEPT !.kind = "invalid"] }
    \cup { [SaveLabels(db, defs, 0) EXCEPT !.kind = k] :
              db \in SavedStores, defs \in SavedCatalogs,
              k \in {"doc", "bad_record", "bad_catalog"} }

\* LabelManager(storage_file): __init__ (lines 12-29) ends with load_labels().
InitLoad ==
    /\ \E doc \in StorageFiles :
          /\ blob = doc
          /\ labels_db = LoadLabels(doc).labels_db
          /\ tag_definitions = LoadLabels(doc).tag_definitions
    /\ clock = 0
    /\ last_op = [NoOp EXCEPT !.op = "init"]
    /\ thr = [t \in Threads |-> IdleThread]
    /\ ClassifierInit
    /\ det = NoDetect

SpecLoad == InitLoad /\ [][Next]_vars

\* C16: right after construction, if the file was missing or its load failed,
\* the store is empty and the tag catalog is the six built-in definitions; if
\* the load succeeded, the catalog's names are the built-in names and the
\* saved catalog's names.
C16_LoadFallback ==
    last_op.op = "init"
        => /\ LoadLabels(blob).loaded # "ok"
                 => /\ labels_db = <<>>
                    /\ tag_definitions = DefaultTagDefinitions
           /\ LoadLabels(blob).loaded = "ok"
                 => TagNames(tag_definitions)
                       = TagNames(DefaultTagDefinitions) \cup TagNames(blob.tag_definitions)

(***************************************************************************)
(* classify_process: the category chosen                                   *)
(***************************************************************************)
\* The categories in the order in which classify_process gives them a score:
\* the categories of the table with a matching keyword, the category of the
\* resource pattern, the categories of the matching custom rules.
ScoredOrder ==
    LET kw == SelectSeq(process_categories,
                 LAMBDA e : \E k \in 1..Len(e.keywords) : KeywordIn(e.keywords[k], cls.name))
        res == IF cls.cpu < 1 /\ cls.memory < 1 THEN <<"idle_process">>
               ELSE IF cls.cpu > 50 THEN <<"cpu_intensive">>
               ELSE <<>>
        cr == SelectSeq(custom_rules,
                 LAMBDA r : MatchRule(r, cls.name, cls.cpu, cls.memory))
    IN [i \in 1..Len(kw) |-> kw[i].category] \o res
          \o [i \in 1..Len(cr) |-> cr[i].category]

\* The score category c has accumulated: its matching keywords, 2 if it is
\* the category of the resource pattern, the weights of its matching rules.
TotalScore(c) ==
    LET Hits(e) == IF e.category = c
                   THEN Cardinality({k \in 1..Len(e.keywords) :
                                        KeywordIn(e.keywords[k], cls.name)})
                   ELSE 0
        K[i \in 0..Len(process_categories)] ==
            IF i = 0 THEN 0 ELSE K[i - 1] + Hits(process_categories[i])
        res == IF (c = "idle_process" /\ cls.cpu < 1 /\ cls.memory < 1)
                  \/ (c = "cpu_intensive" /\ ~(cls.cpu < 1 /\ cls.memory < 1)
                         /\ cls.cpu > 50)
               THEN 2 ELSE 0
        W(r) == IF r.category = c /\ MatchRule(r, cls.name, cls.cpu, cls.memory)
                THEN (IF r.has_weight THEN r.weight ELSE 1)
                ELSE 0
        R[i \in 0..Len(custom_rules)] ==
            IF i = 0 THEN 0 ELSE R[i - 1] + W(custom_rules[i])
    IN K[Len(process_categories)] + res + R[Len(custom_rules)]

\* C17: the category classify returns has the largest accumulated score of
\* all scored categories, and of several with that score it is the one that
\* received a score first; without a scored category it is "unknown"; a second
\* call on the same sample and rule state gives the same category.
C17_ArgmaxFirstScored ==
    (cls.op = "pipeline" /\ cls.view.raised = "")
        => /\ ScoredOrder = <<>> => cls.view.category = "unknown"
           /\ ScoredOrder # <<>>
                 => \E i \in 1..Len(ScoredOrder) :
                       /\ ScoredOrder[i] = cls.view.category
                       /\ \A j \in 1..Len(ScoredOrder) :
                             TotalScore(ScoredOrder[j]) <= TotalScore(ScoredOrder[i])
                       /\ \A j \in 1..(i - 1) :
                             TotalScore(ScoredOrder[j]) < TotalScore(ScoredOrder[i])
           /\ cls.view.category
                 = ClassifyProcess(process_categories, custom_rules, performance_tags,
                                   cls.name, cls.cpu, cls.memory).category

\* classify answered for a sample on which a category of the keyword table,
\* scored first, ties with a category scored later.
C17_Witness ==
    /\ cls.op = "pipeline" /\ cls.view.raised = ""
    /\ Len(ScoredOrder) >= 2
    /\ ScoredOrder[1] = cls.view.category
    /\ \E j \in 2..Len(ScoredOrder) :
          /\ ScoredOrder[j] # ScoredOrder[1]
          /\ TotalScore(ScoredOrder[j]) = TotalScore(ScoredOrder[1])

====
